---- MODULE Spec2Model ----
(***************************************************************************)
(* fly-japan (main.py): round-trip itineraries are generated as a          *)
(* Cartesian product, each is searched once against the remote flight API  *)
(* by a pool of max_concurrent worker threads, and the populated batch is  *)
(* flattened into the rows of a CSV file.                                  *)
(*                                                                         *)
(* Floats are fixed-point integers in hundredths (duration 10.0 h is 1000, *)
(* quality 7.5 is 750); a calendar date is a record [year, month, day].    *)
(***************************************************************************)
EXTENDS Integers, Sequences, FiniteSets, TLC

VARIABLES
    all_flight_plans, \* <<socal batch, norcal batch>>: each a list of BestFlights
    futures,          \* per entry: "unsubmitted", "pending", "running", "finished"
    ret,              \* per entry: what search_and_set_flights returned ("unset" before)
    requests,         \* per entry: number of requests.post calls issued
    writes,           \* per entry: the tasks that assigned its search_results, in order
    log,              \* per entry: the methods that printed "Error: " for it, in order
    queue,            \* the executor's work queue (task indexes of the current group)
    worker,           \* per pool thread: 0 when idle, else the task it runs
    pace,             \* per pool thread, while searches are left to take: the
                      \* pacing since its last completed search ("never": none)
    grp,              \* the group main is processing (1 socal, 2 norcal)
    mainpc,           \* where the main thread is
    nyield,           \* futures as_completed has yielded so far
    files,            \* per group: the rows of its CSV file (<<>>: not created)
    gen_args,         \* arguments of a call of all_flight_options
    gen_done,         \* whether that call has returned
    gen_result        \* what that call returned (<<>> before it returns)

vars == <<all_flight_plans, futures, ret, requests, writes, log, queue, worker, pace,
          grp, mainpc, nyield, files, gen_args, gen_done, gen_result>>

(***************************************************************************)
(* Bounds of the model.                                                    *)
(***************************************************************************)
\* Itineraries over both groups together (main.py generates 36 per group).
MaxEntries == 3
\* Longest airport list handed to all_flight_options when it is checked alone.
MaxPorts == 2

(***************************************************************************)
(* Generic helpers.                                                        *)
(***************************************************************************)
\* The lists of ss, one after the other: one level of a nested list comprehension.
Flatten(ss) ==
    LET fl[n \in 0..Len(ss)] == IF n = 0 THEN <<>> ELSE fl[n - 1] \o ss[n]
    IN  fl[Len(ss)]

\* Sum of f[1] + ... + f[n] for a sequence of naturals.
SumTo(f, n) ==
    LET st[i \in 0..n] == IF i = 0 THEN 0 ELSE st[i - 1] + f[i]
    IN  st[n]

\* Lists without repetition, of length at most n, over the set S.
DistinctSeqs(S, n) ==
    {s \in UNION {[1..l -> S] : l \in 0..n} :
        \A i, j \in DOMAIN s : i # j => s[i] # s[j]}

(***************************************************************************)
(* Data classes.                                                           *)
(***************************************************************************)
FlightItinerary(home_out, dest_in, dest_out, home_in, date_from, date_to) ==
    [home_out |-> home_out, dest_in |-> dest_in, dest_out |-> dest_out,
     home_in |-> home_in, date_from |-> date_from, date_to |-> date_to]

KiwiFlightInfo(price, duration, quality, link) ==
    [price |-> price, duration |-> duration, quality |-> quality, link |-> link]

BestFlights(flight_plan, search_results) ==
    [flight_plan |-> flight_plan, search_results |-> search_results]

Date(y, m, d) == [year |-> y, month |-> m, day |-> d]

(***************************************************************************)
(* all_flight_options: the four nested loops of the comprehension.         *)
(***************************************************************************)
\* A variant with the two destination loops nested the other way round.
all_flight_options_swapped(us_ports, japan_ports, date_from, date_to) ==
    Flatten([a \in DOMAIN us_ports |->
      Flatten([b \in DOMAIN japan_ports |->
        Flatten([c \in DOMAIN japan_ports |->
          Flatten([d \in DOMAIN us_ports |->
            <<FlightItinerary(us_ports[a], japan_ports[c], japan_ports[b],
                              us_ports[d], date_from, date_to)>>])])])])

all_flight_options(us_ports, japan_ports, date_from, date_to) ==
    Flatten([a \in DOMAIN us_ports |->
      Flatten([b \in DOMAIN japan_ports |->
        Flatten([c \in DOMAIN japan_ports |->
          Flatten([d \in DOMAIN us_ports |->
            <<FlightItinerary(us_ports[a], japan_ports[b], japan_ports[c],
                              us_ports[d], date_from, date_to)>>])])])])

(***************************************************************************)
(* main's constants.                                                       *)
(***************************************************************************)
socal_ports == <<"LAX">>
norcal_ports == <<"SFO">>
japan_ports_main == <<"HND", "NRT", "FUK", "KIX", "NGO", "CTS">>
date_from_main == Date(2024, 3, 22)
date_to_main == Date(2024, 4, 1)

all_socal_options ==
    all_flight_options(socal_ports, japan_ports_main, date_from_main, date_to_main)
all_norcal_options ==
    all_flight_options(norcal_ports, japan_ports_main, date_from_main, date_to_main)

\* [BestFlights(f, []) for f in options]
NewBatch(options) == [i \in 1..Len(options) |-> BestFlights(options[i], <<>>)]

(***************************************************************************)
(* The remote API (requests.post to flights_multi), as the code sees it.   *)
(***************************************************************************)
\* "limit": 5 of each of the two requests of the payload.
limit == 5

\* Number of records a leg returns in the model: none, or as many as the limit.
LegSizes == {0, limit}

RequiredFields == {"price", "duration", "quality", "deep_link"}

\* The raw record of rank j of leg `leg` (1 outbound, 2 return).
RawRecord(leg, j) ==
    [price |-> 400 + 100 * leg + j,
     duration |-> 36000 * leg + 500 * j,
     quality |-> 750 - j,
     deep_link |-> "http://kiwi/" \o ToString(leg) \o "/" \o ToString(j)]

\* A record without the field f.
Without(rec, f) == [x \in (DOMAIN rec) \ {f} |-> rec[x]]

\* The parsed body of a successful response: leg 1's records, then leg 2's.
ResponseBody(n1, n2) ==
    [j \in 1..n1 |-> RawRecord(1, j)] \o [j \in 1..n2 |-> RawRecord(2, j)]

\* The same body with the field f missing from its record at position pos.
DamagedBody(body, pos, f) == [body EXCEPT ![pos] = Without(body[pos], f)]

WellFormedBodies == {ResponseBody(n1, n2) : n1 \in LegSizes, n2 \in LegSizes}

\* Bodies with one bad record: the first or the last record of a full response
\* lacks one of the required fields.
DamagedBodies ==
    LET b == ResponseBody(limit, limit)
    IN  {DamagedBody(b, pos, f) : pos \in {1, Len(b)}, f \in RequiredFields}

\* What one remote call can end in: the three failures of the try block of
\* get_raw_kiwi_results, or a parsed body.
RemoteOutcomes ==
    {[kind |-> k, body |-> <<>>] : k \in {"network_error", "http_error", "bad_json"}}
    \cup {[kind |-> "ok", body |-> b] : b \in WellFormedBodies \cup DamagedBodies}

(***************************************************************************)
(* BestFlights methods.  A method that can raise returns a record with a   *)
(* field raised; None is [is_none |-> TRUE].                               *)
(***************************************************************************)
\* get_raw_kiwi_results after the request was issued: the parsed body, or None
\* when post, raise_for_status or json.loads raised (caught and printed: log).
get_raw_kiwi_results(outcome) ==
    IF outcome.kind = "ok"
    THEN [is_none |-> FALSE, data |-> outcome.body, log |-> <<>>]
    ELSE [is_none |-> TRUE, data |-> <<>>, log |-> <<"get_raw_kiwi_results">>]

\* round(seconds / 3600, 2) in hundredths of an hour: the nearest hundredth.
\* (An exact tie, seconds % 36 = 18, is decided in Python by the binary value of
\* the quotient; no modelled duration is one. Here it goes to the even side.)
RoundHours(seconds) ==
    LET q == seconds \div 36
        r == seconds % 36
    IN  IF r > 18 \/ (r = 18 /\ q % 2 = 1) THEN q + 1 ELSE q

\* Subscripting a missing key raises KeyError.
extract_flight_info(kiwi_result) ==
    IF RequiredFields \subseteq DOMAIN kiwi_result
    THEN [raised |-> FALSE,
          value |-> KiwiFlightInfo(kiwi_result["price"],
                                   RoundHours(kiwi_result["duration"]),
                                   kiwi_result["quality"],
                                   kiwi_result["deep_link"])]
    ELSE [raised |-> TRUE]

\* A variant that appends each offer as it is extracted, so the offers before a
\* bad record stay on the entry.
set_flights_appending(self, kiwi_result) ==
    IF kiwi_result.is_none
    THEN [raised |-> TRUE, wrote |-> FALSE, self |-> self]
    ELSE LET data == kiwi_result.data
             bad == {i \in DOMAIN data : extract_flight_info(data[i]).raised}
             upto == IF bad = {} THEN Len(data)
                     ELSE (CHOOSE i \in bad : \A j \in bad : i <= j) - 1
         IN  [raised |-> bad # {}, wrote |-> TRUE,
              self |-> [self EXCEPT !.search_results =
                          [i \in 1..upto |-> extract_flight_info(data[i]).value]]]

\* set_flights: the list is built first and assigned last, so an exception in
\* the comprehension (iterating None, a missing key) leaves self untouched.
set_flights(self, kiwi_result) ==
    IF kiwi_result.is_none
    THEN [raised |-> TRUE, wrote |-> FALSE, self |-> self]
    ELSE LET data == kiwi_result.data
             infos == [i \in DOMAIN data |-> extract_flight_info(data[i])]
         IN  IF \E i \in DOMAIN data : infos[i].raised
             THEN [raised |-> TRUE, wrote |-> FALSE, self |-> self]
             ELSE [raised |-> FALSE, wrote |-> TRUE,
                   self |-> [self EXCEPT !.search_results =
                               [i \in DOMAIN data |-> infos[i].value]]]

\* A variant without the try/except: the exception of set_flights escapes.
search_and_set_flights_uncaught(self, outcome) ==
    LET raw == get_raw_kiwi_results(outcome)
        r == set_flights(self, raw)
    IN  [self |-> r.self, wrote |-> r.wrote, log |-> raw.log,
         ret |-> IF r.raised THEN "raised" ELSE "True"]

\* search_and_set_flights once the remote call has ended in `outcome`: True, or
\* None after catching and printing the exception; ret "raised" would be an
\* exception that escapes to the future.
search_and_set_flights(self, outcome) ==
    LET raw == get_raw_kiwi_results(outcome)
        r == set_flights(self, raw)
    IN  [self |-> r.self, wrote |-> r.wrote,
         log |-> IF r.raised THEN Append(raw.log, "search_and_set_flights")
                 ELSE raw.log,
         ret |-> IF r.raised THEN "None" ELSE "True"]

(***************************************************************************)
(* AllOptionsForJapan.to_csv.                                              *)
(***************************************************************************)
csv_header ==
    <<"Home Out", "Dest In", "Dest Out", "Home In", "Date From", "Date To",
      "Price", "Duration", "Quality", "Link">>

\* Two decimal digits, zero padded.
Pad2(n) == IF n < 10 THEN "0" \o ToString(n) ELSE ToString(n)

\* str(date): ISO form, e.g. 2024-03-22 (years of four digits).
DateStr(d) == ToString(d.year) \o "-" \o Pad2(d.month) \o "-" \o Pad2(d.day)

\* str of a non-negative float with at most two decimals, given in hundredths:
\* 1000 is "10.0", 750 is "7.5", 1389 is "13.89", 1005 is "10.05".
FloatStr(h) ==
    ToString(h \div 100) \o "." \o
    (IF h % 10 = 0 THEN ToString((h % 100) \div 10) ELSE Pad2(h % 100))

\* One data row, as csv.writer converts its ten fields.
CsvRow(flight_plan, flight_info) ==
    <<flight_plan.home_out, flight_plan.dest_in, flight_plan.dest_out,
      flight_plan.home_in, DateStr(flight_plan.date_from),
      DateStr(flight_plan.date_to), ToString(flight_info.price),
      FloatStr(flight_info.duration), FloatStr(flight_info.quality),
      flight_info.link>>

\* A variant that writes one row per plan (its first offer) instead of one per offer.
csv_rows_first_offer(plans) ==
    Flatten([p \in DOMAIN plans |->
      IF plans[p].search_results = <<>> THEN <<>>
      ELSE <<CsvRow(plans[p].flight_plan, plans[p].search_results[1])>>])

\* rows = [... for plan in all_flight_plans for flight_info in plan.search_results]
csv_rows(plans) ==
    Flatten([p \in DOMAIN plans |->
      Flatten([o \in DOMAIN plans[p].search_results |->
        <<CsvRow(plans[p].flight_plan, plans[p].search_results[o])>>])])

(***************************************************************************)
(* The run: main, the executor of search_and_set_best_flights, its pool.   *)
(***************************************************************************)
\* A variant with a pool of three threads.
max_concurrent_three == 2 + 1

max_concurrent == 2

Workers == 1..max_concurrent

Groups == {1, 2}

Entries(g) == DOMAIN all_flight_plans[g]

\* Searches that have started and not finished.
InFlight(g) == {i \in Entries(g) : futures[g][i] = "running"}

Finished(g) == {i \in Entries(g) : futures[g][i] = "finished"}

Unsubmitted(g) == {i \in Entries(g) : futures[g][i] = "unsubmitted"}

PerEntry(plans, v) == [g \in Groups |-> [i \in DOMAIN plans[g] |-> v]]

\* main up to the first call of search_and_set_best_flights: both batches are
\* built, nothing is searched. The model keeps the first k1 and k2 itineraries
\* of the two groups.
Init ==
    /\ \E k1, k2 \in 0..MaxEntries :
          /\ k1 + k2 <= MaxEntries
          /\ all_flight_plans = <<NewBatch(SubSeq(all_socal_options, 1, k1)),
                                  NewBatch(SubSeq(all_norcal_options, 1, k2))>>
    /\ futures = PerEntry(all_flight_plans, "unsubmitted")
    /\ ret = PerEntry(all_flight_plans, "unset")
    /\ requests = PerEntry(all_flight_plans, 0)
    /\ writes = PerEntry(all_flight_plans, <<>>)
    /\ log = PerEntry(all_flight_plans, <<>>)
    /\ queue = <<>>
    /\ worker = [w \in Workers |-> 0]
    /\ pace = [w \in Workers |-> "never"]
    /\ grp = 1
    /\ mainpc = "submit"
    /\ nyield = 0
    /\ files = [g \in Groups |-> <<>>]
    /\ gen_args = [us_ports |-> norcal_ports, japan_ports |-> japan_ports_main,
                   date_from |-> date_from_main, date_to |-> date_to_main]
    /\ gen_done = TRUE
    /\ gen_result = all_norcal_options

gen_vars == <<gen_args, gen_done, gen_result>>

\* executor.submit(f.search_and_set_flights) for the next f of the batch.
Submit ==
    /\ mainpc = "submit"
    /\ Unsubmitted(grp) # {}
    /\ LET i == CHOOSE x \in Unsubmitted(grp) : \A y \in Unsubmitted(grp) : x <= y
       IN  /\ futures' = [futures EXCEPT ![grp][i] = "pending"]
           /\ queue' = Append(queue, i)
    /\ UNCHANGED <<all_flight_plans, ret, requests, writes, log, worker, pace, grp,
                   mainpc, nyield, files, gen_vars>>

\* A variant that neither loops over as_completed nor waits at shutdown: the
\* runner returns as soon as everything is submitted.
AsCompletedBeginNoWait ==
    /\ mainpc = "submit"
    /\ Unsubmitted(grp) = {}
    /\ mainpc' = "to_csv"
    /\ UNCHANGED <<all_flight_plans, futures, ret, requests, writes, log, queue, worker,
                   pace, grp, nyield, files, gen_vars>>

\* The futures list is complete: the as_completed loop begins.
AsCompletedBegin ==
    /\ mainpc = "submit"
    /\ Unsubmitted(grp) = {}
    /\ mainpc' = "wait"
    /\ UNCHANGED <<all_flight_plans, futures, ret, requests, writes, log, queue, worker,
                   pace, grp, nyield, files, gen_vars>>

\* A pool thread takes the next work item and runs search_and_set_flights up to
\* the request: requests.post is issued.
WorkerStart(w) ==
    /\ worker[w] = 0
    /\ queue # <<>>
    /\ LET i == Head(queue)
       IN  /\ worker' = [worker EXCEPT ![w] = i]
           /\ futures' = [futures EXCEPT ![grp][i] = "running"]
           /\ requests' = [requests EXCEPT ![grp][i] = @ + 1]
    /\ queue' = Tail(queue)
    /\ pace' = IF Tail(queue) # <<>> \/ Unsubmitted(grp) # {}
               THEN [pace EXCEPT ![w] = "never"]
               ELSE [v \in Workers |-> "never"]
    /\ UNCHANGED <<all_flight_plans, ret, writes, log, grp, mainpc, nyield, files,
                   gen_vars>>

\* A variant in which every task is bound to the first entry of the batch.
WriteTargetFirst(i) == 1

\* The entry a running task assigns to: the self of its bound method.
WriteTarget(i) == i

\* The remote call of a pool thread ends in outcome o; the rest of
\* search_and_set_flights runs and the future is set.
WorkerFinish(w, o) ==
    /\ worker[w] # 0
    /\ LET i == worker[w]
           t == WriteTarget(i)
           r == search_and_set_flights(all_flight_plans[grp][t], o)
       IN  /\ all_flight_plans' = [all_flight_plans EXCEPT ![grp][t] = r.self]
           /\ writes' = IF r.wrote
                        THEN [writes EXCEPT ![grp][t] = Append(@, i)]
                        ELSE writes
           /\ ret' = [ret EXCEPT ![grp][i] = r.ret]
           /\ log' = [log EXCEPT ![grp][i] = @ \o r.log]
           /\ futures' = [futures EXCEPT ![grp][i] = "finished"]
    /\ worker' = [worker EXCEPT ![w] = 0]
    /\ pace' = IF queue # <<>> \/ Unsubmitted(grp) # {}
               THEN [pace EXCEPT ![w] = "done"]
               ELSE pace
    /\ UNCHANGED <<requests, queue, grp, mainpc, nyield, files, gen_vars>>

\* as_completed yields one more finished future; the loop body starts its
\* time.sleep(2.2).
AsCompletedYield ==
    /\ mainpc = "wait"
    /\ nyield < Cardinality(Finished(grp))
    /\ nyield' = nyield + 1
    /\ mainpc' = "sleep"
    /\ pace' = [w \in Workers |-> IF pace[w] = "done" THEN "sleeping" ELSE pace[w]]
    /\ UNCHANGED <<all_flight_plans, futures, ret, requests, writes, log, queue, worker,
                   grp, files, gen_vars>>

\* time.sleep(2.2) returns.
SleepEnd ==
    /\ mainpc = "sleep"
    /\ mainpc' = "wait"
    /\ pace' = [w \in Workers |-> IF pace[w] = "sleeping" THEN "paced" ELSE pace[w]]
    /\ UNCHANGED <<all_flight_plans, futures, ret, requests, writes, log, queue, worker,
                   grp, nyield, files, gen_vars>>

\* as_completed has yielded every future: the loop ends, the with block exits.
AsCompletedEnd ==
    /\ mainpc = "wait"
    /\ nyield = Cardinality(Entries(grp))
    /\ mainpc' = "shutdown"
    /\ UNCHANGED <<all_flight_plans, futures, ret, requests, writes, log, queue, worker,
                   pace, grp, nyield, files, gen_vars>>

\* executor.shutdown(wait=True) has joined the pool threads;
\* search_and_set_best_flights returns and main calls to_csv.
ExecutorShutdown ==
    /\ mainpc = "shutdown"
    /\ queue = <<>>
    /\ \A w \in Workers : worker[w] = 0
    /\ mainpc' = "to_csv"
    /\ UNCHANGED <<all_flight_plans, futures, ret, requests, writes, log, queue, worker,
                   pace, grp, nyield, files, gen_vars>>

\* to_csv opens the file for writing and writes the header.
CsvOpen ==
    /\ mainpc = "to_csv"
    /\ files' = [files EXCEPT ![grp] = <<csv_header>>]
    /\ mainpc' = "rows"
    /\ UNCHANGED <<all_flight_plans, futures, ret, requests, writes, log, queue, worker,
                   pace, grp, nyield, gen_vars>>

\* to_csv reads the batch, writes its rows, closes the file and returns 0.
CsvRows ==
    /\ mainpc = "rows"
    /\ files' = [files EXCEPT ![grp] = @ \o csv_rows(all_flight_plans[grp])]
    /\ mainpc' = "csv_done"
    /\ UNCHANGED <<all_flight_plans, futures, ret, requests, writes, log, queue, worker,
                   pace, grp, nyield, gen_vars>>

\* A variant of main that starts the second group's searches before the first
\* group's to_csv.
MainNextGroupEarly ==
    /\ mainpc = "to_csv"
    /\ grp = 1
    /\ grp' = 2
    /\ mainpc' = "submit"
    /\ nyield' = 0
    /\ pace' = [w \in Workers |-> "never"]
    /\ UNCHANGED <<all_flight_plans, futures, ret, requests, writes, log, queue, worker,
                   files, gen_vars>>

\* main goes on from the first group's to_csv to the second group's
\* search_and_set_best_flights, with a new executor.
MainNextGroup ==
    /\ mainpc = "csv_done"
    /\ grp = 1
    /\ grp' = 2
    /\ mainpc' = "submit"
    /\ nyield' = 0
    /\ pace' = [w \in Workers |-> "never"]
    /\ UNCHANGED <<all_flight_plans, futures, ret, requests, writes, log, queue, worker,
                   files, gen_vars>>

\* main returns after the second group's to_csv.
MainExit ==
    /\ mainpc = "csv_done"
    /\ grp = 2
    /\ mainpc' = "done"
    /\ UNCHANGED <<all_flight_plans, futures, ret, requests, writes, log, queue, worker,
                   pace, grp, nyield, files, gen_vars>>

Next ==
    \/ Submit
    \/ AsCompletedBegin
    \/ \E w \in Workers : WorkerStart(w)
    \/ \E w \in Workers, o \in RemoteOutcomes : WorkerFinish(w, o)
    \/ AsCompletedYield
    \/ SleepEnd
    \/ AsCompletedEnd
    \/ ExecutorShutdown
    \/ CsvOpen
    \/ CsvRows
    \/ MainNextGroup
    \/ MainExit

Spec == Init /\ [][Next]_vars

(***************************************************************************)
(* The run under fair scheduling: as long as some thread can take a step   *)
(* (the main thread, a pool thread with work, a remote call that can end), *)
(* a step is taken.  This is weaker than fairness for every thread.        *)
(***************************************************************************)
FairSpec == Spec /\ WF_vars(Next)

(***************************************************************************)
(* all_flight_options on its own, over bounded airport lists and dates.    *)
(***************************************************************************)
GenUsPorts == {"LAX", "SFO"}
GenJapanPorts == {"HND", "NRT", "FUK"}

InitGen ==
    /\ gen_args \in [us_ports : DistinctSeqs(GenUsPorts, MaxPorts),
                     japan_ports : DistinctSeqs(GenJapanPorts, MaxPorts),
                     date_from : {date_from_main},
                     date_to : {date_to_main, Date(2024, 12, 9)}]
    /\ gen_done = FALSE
    /\ gen_result = <<>>
    /\ all_flight_plans = <<<<>>, <<>>>>
    /\ futures = PerEntry(all_flight_plans, "unsubmitted")
    /\ ret = PerEntry(all_flight_plans, "unset")
    /\ requests = PerEntry(all_flight_plans, 0)
    /\ writes = PerEntry(all_flight_plans, <<>>)
    /\ log = PerEntry(all_flight_plans, <<>>)
    /\ queue = <<>>
    /\ worker = [w \in Workers |-> 0]
    /\ pace = [w \in Workers |-> "never"]
    /\ grp = 2
    /\ mainpc = "done"
    /\ nyield = 0
    /\ files = [g \in Groups |-> <<>>]

CallGenerator ==
    /\ ~gen_done
    /\ gen_done' = TRUE
    /\ gen_result' = all_flight_options(gen_args.us_ports, gen_args.japan_ports,
                                        gen_args.date_from, gen_args.date_to)
    /\ UNCHANGED <<all_flight_plans, futures, ret, requests, writes, log, queue,
                   worker, pace, grp, mainpc, nyield, files, gen_args>>

NextGen == CallGenerator

SpecGen == InitGen /\ [][NextGen]_vars

(***************************************************************************)
(* Properties.                                                             *)
(***************************************************************************)
AllEntries == {<<g, i>> \in Groups \X (1..MaxEntries) : i \in Entries(g)}

Offers(g, i) == all_flight_plans[g][i].search_results

\* search_and_set_best_flights has returned for group g.
Returned(g) == grp > g \/ (grp = g /\ mainpc \in {"to_csv", "rows", "csv_done", "done"})

\* to_csv of group g has been called.
ExportBegun(g) == files[g] # <<>> \/ (grp = g /\ mainpc = "to_csv")

\* to_csv of group g has returned.
ExportFinished(g) == files[g] # <<>> /\ ~(grp = g /\ mainpc = "rows")

\* C1: at every moment of a run, at most 2 searches have started and not yet
\* finished, whatever the size of the batch.
C1_AtMostTwoInFlight == \A g \in Groups : Cardinality(InFlight(g)) <= 2

\* C1 witness: two searches are in flight while a third waits in the queue.
C1_Witness == \E g \in Groups : Cardinality(InFlight(g)) = 2 /\ queue # <<>>

\* C2: under fair scheduling, with every remote call ending,
\* search_and_set_best_flights returns for each batch, and from the moment it
\* returns every search of the batch is finished, having returned True or
\* None (after a logged failure); none is unstarted or in flight.
C2_RunnerReturnsAllDone ==
    /\ <>(\A g \in Groups : Returned(g))
    /\ [](\A g \in Groups : Returned(g) =>
            \A i \in Entries(g) :
               /\ futures[g][i] = "finished"
               /\ ret[g][i] \in {"True", "None"}
               /\ (ret[g][i] = "None" => log[g][i] # <<>>))

\* C2 witness: the runner has returned for a batch of three searches of which
\* one failed and one succeeded.
C2_Witness ==
    \E g \in Groups :
       /\ grp = g /\ mainpc = "to_csv"
       /\ Cardinality(Entries(g)) >= 3
       /\ \E i, j \in Entries(g) : ret[g][i] = "None" /\ ret[g][j] = "True"

\* C3: a pool thread that has completed a search starts its next search only
\* after a pacing delay (a time.sleep(2.2) begun after that completion) has
\* elapsed.
C3_PacedStarts ==
    [][\A w \in Workers :
         (worker[w] = 0 /\ worker'[w] # 0) => pace[w] \in {"never", "paced"}]_vars

\* The remote call of entry <<g, i>> failed: get_raw_kiwi_results printed its error.
RemoteFailed(g, i) == log[g][i] # <<>> /\ log[g][i][1] = "get_raw_kiwi_results"

\* C4: when the remote call of an itinerary fails, search_and_set_flights does
\* not raise, returns None (not True), leaves the entry's offers empty, and has
\* issued exactly one request.
C4_RemoteFailureContained ==
    \A e \in AllEntries :
       RemoteFailed(e[1], e[2]) =>
          /\ futures[e[1]][e[2]] = "finished"
          /\ ret[e[1]][e[2]] = "None"
          /\ Offers(e[1], e[2]) = <<>>
          /\ writes[e[1]][e[2]] = <<>>
          /\ requests[e[1]][e[2]] = 1

\* C4 witness: a search whose remote call failed has finished.
C4_Witness ==
    \E e \in AllEntries : RemoteFailed(e[1], e[2]) /\ futures[e[1]][e[2]] = "finished"

\* C5: every entry's offers list has at most 5 offers, for responses in which
\* each leg returns at most 5 records.
C5_OffersAtMostFive == \A e \in AllEntries : Len(Offers(e[1], e[2])) <= 5

\* Number of data rows before those of plan p in the file of group g.
RowsBefore(g, p) ==
    SumTo([q \in Entries(g) |-> Len(Offers(g, q))], p - 1)

\* C6: the file to_csv has written is the header row followed by exactly one
\* row per (itinerary, offer) pair, in batch order and, within an itinerary, in
\* offers order; so it has as many data rows as there are offers, none for an
\* itinerary without offers, and only the header when no itinerary has offers.
C6_CsvIsHeaderPlusOneRowPerOffer ==
    \A g \in Groups :
       ExportFinished(g) =>
          /\ files[g][1] = csv_header
          /\ Len(files[g]) = 1 + RowsBefore(g, Cardinality(Entries(g)) + 1)
          /\ \A p \in Entries(g) :
                \A o \in DOMAIN Offers(g, p) :
                   files[g][1 + RowsBefore(g, p) + o] =
                      CsvRow(all_flight_plans[g][p].flight_plan, Offers(g, p)[o])

\* C6 witness: a written file of a batch in which one itinerary has no offers,
\* a later one has several, and another has offers too.
C6_Witness ==
    \E g \in Groups :
       /\ ExportFinished(g)
       /\ \E p, q, r \in Entries(g) :
             /\ p < q /\ q # r /\ p # r
             /\ Offers(g, p) = <<>>
             /\ Len(Offers(g, q)) > 1
             /\ Offers(g, r) # <<>>

\* C7: for airport lists A (size m) and B (size n), empty ones included,
\* all_flight_options returns m*m*n*n itineraries: the tuple (a1,b1,b2,a2) for
\* every a1, a2 of A and b1, b2 of B, each once and with the given dates, with
\* origin-out varying slowest, then dest-in, then dest-out, then origin-in.
C7_GeneratorIsOrderedProduct ==
    gen_done =>
       LET A == gen_args.us_ports
           B == gen_args.japan_ports
           m == Len(A)
           n == Len(B)
       IN  /\ Len(gen_result) = m * m * n * n
           /\ \A a1, a2 \in 1..m : \A b1, b2 \in 1..n :
                 gen_result[(((a1 - 1) * n + (b1 - 1)) * n + (b2 - 1)) * m + a2] =
                    [home_out |-> A[a1], dest_in |-> B[b1], dest_out |-> B[b2],
                     home_in |-> A[a2], date_from |-> gen_args.date_from,
                     date_to |-> gen_args.date_to]

\* C7 witness: the call for A = [LAX], B = [HND, NRT] has returned its four
\* itineraries in the stated order.
C7_Witness ==
    /\ gen_done
    /\ gen_args.us_ports = <<"LAX">>
    /\ gen_args.japan_ports = <<"HND", "NRT">>
    /\ Len(gen_result) = 4
    /\ <<gen_result[2].dest_in, gen_result[2].dest_out>> = <<"HND", "NRT">>
    /\ <<gen_result[3].dest_in, gen_result[3].dest_out>> = <<"NRT", "HND">>

\* C8: each entry's offers list is assigned at most once, by the search
\* submitted for that entry and as that search finishes, and is never changed
\* by any other step.
C8_OffersWrittenOnceByOwner ==
    /\ [](\A e \in AllEntries :
            /\ Len(writes[e[1]][e[2]]) <= 1
            /\ \A x \in DOMAIN writes[e[1]][e[2]] : writes[e[1]][e[2]][x] = e[2])
    /\ [][\A g \in Groups : \A i \in Entries(g) :
            (all_flight_plans'[g][i] # all_flight_plans[g][i]
               \/ writes'[g][i] # writes[g][i])
            => /\ futures[g][i] = "running"
               /\ futures'[g][i] = "finished"
               /\ \A j \in Entries(g) \ {i} : futures'[g][j] = futures[g][j]]_vars

\* C8 witness: two workers have each written the offers of their own entry.
C8_Witness ==
    \E g \in Groups : \E i, j \in Entries(g) :
       /\ i # j
       /\ writes[g][i] = <<i>> /\ Offers(g, i) # <<>>
       /\ writes[g][j] = <<j>> /\ Offers(g, j) # <<>>

\* C9: to_csv of a batch begins only when every search of the batch has
\* finished and the pool is idle, no offers list of the batch is written from
\* then on, and the second group's searches are submitted only after the first
\* group's to_csv has returned.
C9_ExportAfterSearches ==
    /\ [](\A g \in Groups :
            ExportBegun(g) =>
               /\ \A i \in Entries(g) : futures[g][i] = "finished"
               /\ (grp = g => queue = <<>> /\ \A w \in Workers : worker[w] = 0))
    /\ [](grp = 2 => ExportFinished(1))
    /\ [][\A g \in Groups :
            ExportBegun(g) =>
               /\ all_flight_plans'[g] = all_flight_plans[g]
               /\ writes'[g] = writes[g]]_vars

\* C9 witness: a search of the second group is in flight after the first
\* group's file was written with data rows.
C9_Witness == grp = 2 /\ InFlight(2) # {} /\ Len(files[1]) > 1

\* The search of entry <<g, i>> got a parsed response and then failed: only
\* search_and_set_flights printed an error.
ExtractionFailed(g, i) == log[g][i] = <<"search_and_set_flights">>

\* C10: when a record of a successful response lacks a required field, the
\* whole itinerary is aborted: its offers stay empty and unassigned (no
\* partial list), search_and_set_flights returns None without raising, and the
\* step leaves the offers of every entry as they were.
C10_MissingFieldAbortsItinerary ==
    /\ [](\A e \in AllEntries :
            ExtractionFailed(e[1], e[2]) =>
               /\ futures[e[1]][e[2]] = "finished"
               /\ ret[e[1]][e[2]] = "None"
               /\ Offers(e[1], e[2]) = <<>>
               /\ writes[e[1]][e[2]] = <<>>)
    /\ [][(\E g \in Groups : \E i \in Entries(g) :
             log[g][i] = <<>> /\ log'[g][i] = <<"search_and_set_flights">>)
          => all_flight_plans' = all_flight_plans]_vars

\* C10 witness: one search was aborted by a bad record while another entry of
\* the batch holds its offers.
C10_Witness ==
    \E g \in Groups : \E i, j \in Entries(g) :
       /\ ExtractionFailed(g, i)
       /\ Offers(g, j) # <<>>

====
